---- MODULE Spec2Model ----
(***************************************************************************)
(* Credit approval backend (Django app "loans"): the customer and loan     *)
(* tables, the credit scorer (loans/helper.py), the request handlers       *)
(* register_customer, check_eligibility and create_loan (loans/views.py)   *)
(* and the spreadsheet ingestion tasks (loans/tasks.py).                   *)
(*                                                                         *)
(* Units.  Money that the code holds as a float (loan_amount,              *)
(* monthly_repayment, monthly_installment) is an integer number of         *)
(* hundredths; money that the code holds as an integer (monthly_salary,    *)
(* approved_limit, current_debt) is an integer number of units.  A credit  *)
(* score is an integer number of hundredths of a point: round(x, 2) of the *)
(* code is rounding to an integer here.  Float arithmetic is modelled by   *)
(* exact rational arithmetic, rounded half-to-even where the code rounds.  *)
(* Dates are reduced to their year, the only part the scorer reads; the    *)
(* end date of a new loan is computed for every month today may lie in.    *)
(***************************************************************************)
EXTENDS Integers, Sequences, FiniteSets, TLC

VARIABLES customers, loans, today, request, response, credit_score, workers

vars == <<customers, loans, today, request, response, credit_score, workers>>

-----------------------------------------------------------------------------
(* Optional values: a JSON field that is absent, a null in a response.  A  *)
(* JSON number v is Some(v); the JSON string that holds the numeral of v   *)
(* is Str(v).                                                              *)

None == <<>>

Some(v) == <<v>>

Str(v) == <<v, "str">>

-----------------------------------------------------------------------------
(* Arithmetic of the Python expressions.                                   *)

Abs(x) == IF x < 0 THEN -x ELSE x

Max(a, b) == IF a >= b THEN a ELSE b

RECURSIVE GCD(_, _)
GCD(a, b) == IF b = 0 THEN a ELSE GCD(b, a % b)

RECURSIVE Pow(_, _)
Pow(b, n) == IF n = 0 THEN 1 ELSE b * Pow(b, n - 1)

\* <<q, r>> with a * b = q * d + r and 0 <= r < d, for a, b >= 0 and d > 0,
\* computed by halving b so that no intermediate product leaves the integers
\* of the checker.
RECURSIVE MulDivMod(_, _, _)
MulDivMod(a, b, d) ==
    IF b = 0 THEN <<0, 0>>
    ELSE LET h  == MulDivMod(a, b \div 2, d)
             q2 == 2 * h[1] + ((2 * h[2]) \div d)
             r2 == (2 * h[2]) % d
             s  == r2 + (a % d)
         IN  IF b % 2 = 0 THEN <<q2, r2>>
             ELSE <<q2 + (a \div d) + (s \div d), s % d>>

\* round() of Python on the non-negative rational q + r/d: to the nearest
\* integer, a tie to the even one.
RoundParts(q, r, d) ==
    IF 2 * r < d THEN q
    ELSE IF 2 * r > d THEN q + 1
    ELSE IF q % 2 = 0 THEN q ELSE q + 1

\* round(n / d) for d > 0 and any n.
RoundHalfEven(n, d) == RoundParts(n \div d, n % d, d)

\* round(a * b / d) for d > 0 and any a, b.
RoundMulDiv(a, b, d) ==
    LET m == MulDivMod(Abs(a), Abs(b), d)
        v == RoundParts(m[1], m[2], d)
    IN  IF (a < 0) = (b < 0) THEN v ELSE -v

\* IntOfFloat with round() in the place of int().
IntOfFloatRounds(x) == RoundHalfEven(x, 100)

\* int(x) of Python on a float held in hundredths: truncation toward zero.
IntOfFloat(x) == IF x >= 0 THEN x \div 100 ELSE -((-x) \div 100)

-----------------------------------------------------------------------------
(* The tables.  customers maps a customer_id to the row's monthly_salary,  *)
(* approved_limit and current_debt; loans maps a loan_id to the row's      *)
(* customer, loan_amount, tenure, interest_rate, monthly_repayment,        *)
(* emis_paid_on_time and start_date (its year).                            *)

Customer(salary, limit, debt) ==
    [monthly_salary |-> salary, approved_limit |-> limit, current_debt |-> debt]

Loan(cid, amount, tenure, rate, repayment, emis, start) ==
    [customer |-> cid, loan_amount |-> amount, tenure |-> tenure,
     interest_rate |-> rate, monthly_repayment |-> repayment,
     emis_paid_on_time |-> emis, start_date |-> start]

MaxOf(S) == IF S = {} THEN 0 ELSE CHOOSE x \in S : \A y \in S : y <= x

\* The id an auto-incremented primary key gives to the next row.
NextId(table) == MaxOf(DOMAIN table) + 1

RECURSIVE SeqOfIds(_)
SeqOfIds(S) ==
    IF S = {} THEN <<>>
    ELSE LET m == CHOOSE x \in S : \A y \in S : x <= y
         IN  <<m>> \o SeqOfIds(S \ {m})

\* Loan.objects.filter(customer=customer) on a loan table: the customer's
\* loans, in loan_id order.
LoansOf(table, cid) ==
    LET ids == SeqOfIds({i \in DOMAIN table : table[i].customer = cid})
    IN  [k \in 1..Len(ids) |-> table[ids[k]]]

RECURSIVE SumOver(_, _)
SumOver(F(_), s) == IF s = <<>> THEN 0 ELSE F(Head(s)) + SumOver(F, Tail(s))

-----------------------------------------------------------------------------
(* loans/helper.py                                                         *)

\* total_score that counts every loan as a loan of the current year.
total_score_EveryLoanRecent(customer, ls, year) ==
    LET total_loans == Len(ls)
        GetEmis(l)   == l.emis_paid_on_time
        GetTenure(l) == l.tenure
        emis_paid  == SumOver(GetEmis, ls)
        emis_total == SumOver(GetTenure, ls)
        \* score_on_time = emis_paid / emis_total * 40, as on1 / on2, on2 > 0
        on1 == IF emis_total = 0 THEN 0
               ELSE IF emis_total > 0 THEN 4000 * emis_paid
               ELSE -(4000 * emis_paid)
        on2 == IF emis_total = 0 THEN 1 ELSE Abs(emis_total)
        loan_count_score == Max(0, 10 - total_loans) * 150
        recent_loans == ls
        recent_activity_score == Max(15 - Len(recent_loans) * 3, 0) * 100
        \* volume_score = (1 - current_debt / approved_limit) * 30, as the
        \* integer vq plus vr / vd with 0 <= vr < vd
        limit == customer.approved_limit
        room  == limit - customer.current_debt
        vm == MulDivMod(Abs(room), 3000, Abs(limit))
        vneg == (room < 0) /= (limit < 0)
        vd == IF limit = 0 THEN 1 ELSE Abs(limit)
        vq == IF limit = 0 THEN 3000
              ELSE IF ~vneg THEN vm[1]
              ELSE IF vm[2] = 0 THEN -vm[1] ELSE -vm[1] - 1
        vr == IF limit = 0 THEN 0
              ELSE IF ~vneg \/ vm[2] = 0 THEN vm[2] ELSE vd - vm[2]
        den  == on2 * vd
        fsum == (on1 % on2) * vd + vr * on2
    IN  <<(on1 \div on2) + loan_count_score + recent_activity_score + vq
            + (fsum \div den),
          fsum % den, den>>

\* total_score before it is clamped and rounded (helper.py lines 12-31), in
\* hundredths of a point, as <<whole, frac, den>>: the rational
\* whole + frac / den with 0 <= frac < den.  year is date.today().year.
total_score(customer, ls, year) ==
    LET total_loans == Len(ls)
        GetEmis(l)   == l.emis_paid_on_time
        GetTenure(l) == l.tenure
        emis_paid  == SumOver(GetEmis, ls)
        emis_total == SumOver(GetTenure, ls)
        \* score_on_time = emis_paid / emis_total * 40, as on1 / on2, on2 > 0
        on1 == IF emis_total = 0 THEN 0
               ELSE IF emis_total > 0 THEN 4000 * emis_paid
               ELSE -(4000 * emis_paid)
        on2 == IF emis_total = 0 THEN 1 ELSE Abs(emis_total)
        loan_count_score == Max(0, 10 - total_loans) * 150
        recent_loans == SelectSeq(ls, LAMBDA l : l.start_date = year)
        recent_activity_score == Max(15 - Len(recent_loans) * 3, 0) * 100
        \* volume_score = (1 - current_debt / approved_limit) * 30, as the
        \* integer vq plus vr / vd with 0 <= vr < vd
        limit == customer.approved_limit
        room  == limit - customer.current_debt
        vm == MulDivMod(Abs(room), 3000, Abs(limit))
        vneg == (room < 0) /= (limit < 0)
        vd == IF limit = 0 THEN 1 ELSE Abs(limit)
        vq == IF limit = 0 THEN 3000
              ELSE IF ~vneg THEN vm[1]
              ELSE IF vm[2] = 0 THEN -vm[1] ELSE -vm[1] - 1
        vr == IF limit = 0 THEN 0
              ELSE IF ~vneg \/ vm[2] = 0 THEN vm[2] ELSE vd - vm[2]
        den  == on2 * vd
        fsum == (on1 % on2) * vd + vr * on2
    IN  <<(on1 \div on2) + loan_count_score + recent_activity_score + vq
            + (fsum \div den),
          fsum % den, den>>

\* ClampRound without min(100, ...).
ClampRoundNoCeiling(t) ==
    IF t[1] < 0 THEN 0 ELSE RoundParts(t[1], t[2], t[3])

\* round(max(0, min(100, total_score)), 2) on t = <<whole, frac, den>>.
ClampRound(t) ==
    IF t[1] >= 10000 THEN 10000
    ELSE IF t[1] < 0 THEN 0
    ELSE RoundParts(t[1], t[2], t[3])

\* calculate_credit_score with the new-customer rule before the
\* overutilization rule.
ScoreNewCustomerFirst(customer, ls, year) ==
    IF Len(ls) = 0 THEN 5000
    ELSE IF customer.current_debt > customer.approved_limit THEN 0
    ELSE ClampRound(total_score(customer, ls, year))

\* calculate_credit_score without the new-customer rule.
ScoreNoNewCustomerRule(customer, ls, year) ==
    IF customer.current_debt > customer.approved_limit THEN 0
    ELSE ClampRound(total_score(customer, ls, year))

\* calculate_credit_score without the overutilization rule.
ScoreNoOverutilizationRule(customer, ls, year) ==
    IF Len(ls) = 0 THEN 5000
    ELSE ClampRound(total_score(customer, ls, year))

\* calculate_credit_score(customer, ls) in hundredths of a point, when
\* date.today().year is year.
calculate_credit_score(customer, ls, year) ==
    IF customer.current_debt > customer.approved_limit THEN 0
    ELSE IF Len(ls) = 0 THEN 5000
    ELSE ClampRound(total_score(customer, ls, year))

-----------------------------------------------------------------------------
(* Requests and responses.  The body of a check_eligibility or create_loan *)
(* request is a record of four optional JSON numbers; a JSON response is   *)
(* its HTTP status, the set of keys its body holds, and their values.      *)

\* Truth value of a JSON number, of a JSON string holding a numeral or of a
\* missing key, as all([...]) sees it: None and the number 0 are false, a
\* string that is not empty is true.
Truthy(f) == f /= None /\ (Len(f) = 2 \/ f[1] /= 0)

JsonResponse0 ==
    [status |-> 0, keys |-> {}, error |-> "", customer_id |-> None,
     approval |-> FALSE, reason |-> "", interest_rate |-> 0,
     corrected_interest_rate |-> 0, tenure |-> 0, monthly_installment |-> 0,
     loan_id |-> None, loan_approved |-> FALSE, message |-> "",
     monthly_income |-> 0, approved_limit |-> 0]

ErrorResponse(msg, status) ==
    [JsonResponse0 EXCEPT !.status = status, !.keys = {"error"}, !.error = msg]

-----------------------------------------------------------------------------
(* loans/views.py: check_eligibility                                       *)

\* float('nan'), which float() returns for the string "nan" and json.loads
\* for the literal NaN: held as a number that no other rate of a request takes.
\* Every comparison of nan with a number is false; the number is above both
\* floors, so the tests interest_rate < 12 and interest_rate < 16 of step 3
\* are false for it, and AtLeast is the test of step 6.
NaN == 1000000

\* x >= floor as the floats compare.
AtLeast(x, floor) == x /= NaN /\ x >= floor

\* CorrectedInterestRate with the floor of the band (30,50] in both bands.
CorrectedInterestRateOneFloor(score, interest_rate) ==
    IF 1000 < score /\ score <= 5000
      THEN IF interest_rate < 12 THEN 12 ELSE interest_rate
    ELSE interest_rate

\* CorrectedInterestRate that sets the rate of a floored band to the floor,
\* whatever rate was requested.
CorrectedInterestRateSetsFloor(score, interest_rate) ==
    IF 3000 < score /\ score <= 5000 THEN 12
    ELSE IF 1000 < score /\ score <= 3000 THEN 16
    ELSE interest_rate

\* Step 3: the corrected interest rate for a score (hundredths of a point).
CorrectedInterestRate(score, interest_rate) ==
    IF 3000 < score /\ score <= 5000
      THEN IF interest_rate < 12 THEN 12 ELSE interest_rate
    ELSE IF 1000 < score /\ score <= 3000
      THEN IF interest_rate < 16 THEN 16 ELSE interest_rate
    ELSE interest_rate

\* A tenure of 2500 years.
FarTenure == 30000

\* Step 5 and the round(monthly_installment, 2) of step 7: the installment
\* in hundredths, for a loan_amount in hundredths, a rate in percent a year
\* and a tenure in months.  With R = rate / 1200 the code evaluates
\* loan_amount * R * (1 + R)^N / ((1 + R)^N - 1); a zero divisor (rate 0 or
\* tenure 0) raises ZeroDivisionError, which the code turns into 0.0.  With
\* a rate of nan and a tenure other than 0 every term is nan.  With a rate
\* of 1 percent or more and a tenure of -FarTenure or less, (1 + R)^N is
\* below 10^-10 and the installment, of absolute value below
\* loan_amount * R * (1 + R)^N * 2, rounds to zero for every loan_amount
\* of the model.
MonthlyInstallment(loan_amount, rate, tenure) ==
    IF rate = 0 \/ tenure = 0 THEN 0
    ELSE IF rate = NaN THEN NaN
    ELSE IF rate >= 1 /\ tenure <= -FarTenure THEN 0
    ELSE LET a  == Pow(1200 + rate, Abs(tenure))
             g  == Pow(1200, Abs(tenure))
             \* (1 + R)^N / ((1 + R)^N - 1) as x / y
             x  == IF tenure > 0 THEN a ELSE g
             y  == IF tenure > 0 THEN a - g ELSE g - a
             g1 == GCD(x, Abs(y))
             g2 == GCD(Abs(rate), 1200)
             x1 == x \div g1
             y1 == Abs(y) \div g1
             r1 == Abs(rate) \div g2
             t1 == 1200 \div g2
             g3 == GCD(x1, t1)
             g4 == GCD(r1, y1)
             num == (r1 \div g4) * (x1 \div g3)
             dn  == (t1 \div g3) * (y1 \div g4)
             v   == RoundMulDiv(loan_amount, num, dn)
         IN  IF (rate < 0) = (y < 0) THEN v ELSE -v

\* ApprovalDecision with the unconditional band starting at 60.
ApprovalDecisionAbove60(score, corrected_interest_rate) ==
    IF score > 6000 THEN [approval |-> TRUE, reason |-> ""]
    ELSE IF 3000 < score /\ score <= 5000 /\ corrected_interest_rate >= 12
      THEN [approval |-> TRUE, reason |-> ""]
    ELSE IF 1000 < score /\ score <= 3000 /\ corrected_interest_rate >= 16
      THEN [approval |-> TRUE, reason |-> ""]
    ELSE [approval |-> FALSE, reason |-> "Credit score too low (<=10)"]

\* Step 6: the approval flag and the reason of a rejection (the last reason
\* is written with the sign for "at most" in the source).
ApprovalDecision(score, corrected_interest_rate) ==
    IF score > 5000 THEN [approval |-> TRUE, reason |-> ""]
    ELSE IF 3000 < score /\ score <= 5000
      THEN IF AtLeast(corrected_interest_rate, 12)
             THEN [approval |-> TRUE, reason |-> ""]
             ELSE [approval |-> FALSE,
                   reason |-> "Interest rate too low for credit score range 30-50"]
    ELSE IF 1000 < score /\ score <= 3000
      THEN IF AtLeast(corrected_interest_rate, 16)
             THEN [approval |-> TRUE, reason |-> ""]
             ELSE [approval |-> FALSE,
                   reason |-> "Interest rate too low for credit score range 10-30"]
    ELSE [approval |-> FALSE, reason |-> "Credit score too low (<=10)"]

GetRepayment(l) == l.monthly_repayment

\* EmiBurdenExceeded with >= in the place of >.
EmiBurdenReached(customer, ls) ==
    2 * SumOver(GetRepayment, ls) >= 100 * customer.monthly_salary

\* Step 4: sum(loan.monthly_repayment) > 0.5 * customer.monthly_salary, the
\* repayments being in hundredths and the salary in units.
EmiBurdenExceeded(customer, ls) ==
    2 * SumOver(GetRepayment, ls) > 100 * customer.monthly_salary

\* Evaluate with the EMI-burden check (step 4) before the check of a zero
\* score (step 2).
EvaluateEmiFirst(customer, ls, loan_amount, interest_rate, tenure) ==
    LET score == calculate_credit_score(customer, ls, today)
        corrected_interest_rate == CorrectedInterestRate(score, interest_rate)
        decision == ApprovalDecision(score, corrected_interest_rate)
    IN  IF EmiBurdenExceeded(customer, ls)
          THEN [approval |-> FALSE,
                reason |-> "Existing EMI burden exceeds 50% of salary",
                corrected_interest_rate |-> corrected_interest_rate,
                monthly_installment |-> 0]
        ELSE IF score = 0
          THEN [approval |-> FALSE,
                reason |-> "Overutilized credit limit",
                corrected_interest_rate |-> interest_rate,
                monthly_installment |-> 0]
        ELSE [approval |-> decision.approval,
              reason |-> IF decision.approval THEN ""
                         ELSE IF decision.reason /= "" THEN decision.reason
                         ELSE "Credit score too low",
              corrected_interest_rate |-> corrected_interest_rate,
              monthly_installment |->
                  MonthlyInstallment(loan_amount, corrected_interest_rate,
                                     tenure)]

\* Evaluate that rejects a loan_amount which would take current_debt above
\* approved_limit.
EvaluateWithinLimit(customer, ls, loan_amount, interest_rate, tenure) ==
    LET score == calculate_credit_score(customer, ls, today)
        corrected_interest_rate == CorrectedInterestRate(score, interest_rate)
        decision == ApprovalDecision(score, corrected_interest_rate)
    IN  IF score = 0
          THEN [approval |-> FALSE,
                reason |-> "Overutilized credit limit",
                corrected_interest_rate |-> interest_rate,
                monthly_installment |-> 0]
        ELSE IF EmiBurdenExceeded(customer, ls)
          THEN [approval |-> FALSE,
                reason |-> "Existing EMI burden exceeds 50% of salary",
                corrected_interest_rate |-> corrected_interest_rate,
                monthly_installment |-> 0]
        ELSE IF customer.current_debt + IntOfFloat(loan_amount)
                   > customer.approved_limit
          THEN [approval |-> FALSE,
                reason |-> "Loan exceeds approved limit",
                corrected_interest_rate |-> corrected_interest_rate,
                monthly_installment |-> 0]
        ELSE [approval |-> decision.approval,
              reason |-> IF decision.approval THEN ""
                         ELSE IF decision.reason /= "" THEN decision.reason
                         ELSE "Credit score too low",
              corrected_interest_rate |-> corrected_interest_rate,
              monthly_installment |->
                  MonthlyInstallment(loan_amount, corrected_interest_rate,
                                     tenure)]

\* Steps 1 to 6 on a customer, the customer's loans and the converted
\* inputs: the approval flag, the reason of a rejection, the corrected rate
\* and the rounded installment.
Evaluate(customer, ls, loan_amount, interest_rate, tenure) ==
    LET score == calculate_credit_score(customer, ls, today)
        corrected_interest_rate == CorrectedInterestRate(score, interest_rate)
        decision == ApprovalDecision(score, corrected_interest_rate)
    IN  IF score = 0
          THEN [approval |-> FALSE,
                reason |-> "Overutilized credit limit",
                corrected_interest_rate |-> interest_rate,
                monthly_installment |-> 0]
        ELSE IF EmiBurdenExceeded(customer, ls)
          THEN [approval |-> FALSE,
                reason |-> "Existing EMI burden exceeds 50% of salary",
                corrected_interest_rate |-> corrected_interest_rate,
                monthly_installment |-> 0]
        ELSE [approval |-> decision.approval,
              reason |-> IF decision.approval THEN ""
                         ELSE IF decision.reason /= "" THEN decision.reason
                         ELSE "Credit score too low",
              corrected_interest_rate |-> corrected_interest_rate,
              monthly_installment |->
                  MonthlyInstallment(loan_amount, corrected_interest_rate,
                                     tenure)]

\* EligibilityResponse with the requested rate under both rate keys.
EligibilityResponseEchoesRate(data, result) ==
    [JsonResponse0 EXCEPT
       !.status = 200,
       !.keys = {"customer_id", "approval", "interest_rate",
                 "corrected_interest_rate", "tenure", "monthly_installment"}
                \cup (IF result.approval THEN {} ELSE {"reason"}),
       !.customer_id = data.customer_id,
       !.approval = result.approval,
       !.reason = result.reason,
       !.interest_rate = data.interest_rate[1],
       !.corrected_interest_rate = data.interest_rate[1],
       !.tenure = data.tenure[1],
       !.monthly_installment = result.monthly_installment]

\* The JSON body of an evaluation; the key reason is there only for a
\* rejection.
EligibilityResponse(data, result) ==
    [JsonResponse0 EXCEPT
       !.status = 200,
       !.keys = {"customer_id", "approval", "interest_rate",
                 "corrected_interest_rate", "tenure", "monthly_installment"}
                \cup (IF result.approval THEN {} ELSE {"reason"}),
       !.customer_id = data.customer_id,
       !.approval = result.approval,
       !.reason = result.reason,
       !.interest_rate = data.interest_rate[1],
       !.corrected_interest_rate = result.corrected_interest_rate,
       !.tenure = data.tenure[1],
       !.monthly_installment = result.monthly_installment]

\* check_eligibility that answers 400 in the place of 404 for a customer
\* that is not found.
check_eligibility_NotFound400(data) ==
    IF ~(Truthy(data.customer_id) /\ Truthy(data.loan_amount)
         /\ Truthy(data.interest_rate) /\ Truthy(data.tenure))
      THEN ErrorResponse("Missing required fields", 400)
    ELSE IF data.customer_id[1] \notin DOMAIN customers
      THEN ErrorResponse("Customer not found", 400)
    ELSE EligibilityResponse(data,
             Evaluate(customers[data.customer_id[1]],
                      LoansOf(loans, data.customer_id[1]),
                      data.loan_amount[1], data.interest_rate[1],
                      data.tenure[1]))

\* check_eligibility without the except ZeroDivisionError of step 5: the
\* division by zero reaches the outer except clause.
check_eligibility_NoZeroDivisionHandler(data) ==
    IF ~(Truthy(data.customer_id) /\ Truthy(data.loan_amount)
         /\ Truthy(data.interest_rate) /\ Truthy(data.tenure))
      THEN ErrorResponse("Missing required fields", 400)
    ELSE IF data.customer_id[1] \notin DOMAIN customers
      THEN ErrorResponse("Customer not found", 404)
    ELSE LET result == Evaluate(customers[data.customer_id[1]],
                                LoansOf(loans, data.customer_id[1]),
                                data.loan_amount[1], data.interest_rate[1],
                                data.tenure[1])
         IN  IF /\ result.reason /= "Overutilized credit limit"
                /\ result.reason /= "Existing EMI burden exceeds 50% of salary"
                /\ (result.corrected_interest_rate = 0 \/ data.tenure[1] = 0)
               THEN ErrorResponse("float division by zero", 400)
             ELSE EligibilityResponse(data, result)

\* The eligibility response for a request body, from the tables as they are.
check_eligibility(data) ==
    IF ~(Truthy(data.customer_id) /\ Truthy(data.loan_amount)
         /\ Truthy(data.interest_rate) /\ Truthy(data.tenure))
      THEN ErrorResponse("Missing required fields", 400)
    ELSE IF data.customer_id[1] \notin DOMAIN customers
      THEN ErrorResponse("Customer not found", 404)
    ELSE EligibilityResponse(data,
             Evaluate(customers[data.customer_id[1]],
                      LoansOf(loans, data.customer_id[1]),
                      data.loan_amount[1], data.interest_rate[1],
                      data.tenure[1]))

\* The local credit_score of the evaluation of a request body: None when the
\* handler returns before step 1.
EvaluatedScore(data) ==
    IF check_eligibility(data).status /= 200 THEN None
    ELSE Some(calculate_credit_score(customers[data.customer_id[1]],
                                     LoansOf(loans, data.customer_id[1]),
                                     today))

-----------------------------------------------------------------------------
(* Bounds and inputs of the model.                                         *)

\* The most customers the table may hold for register_customer to add one.
MaxCustomers == 2

\* The most loans the loan table may hold for create_loan to add one.
MaxLoans == 2

\* date.today().year: no run of the model crosses a new year.
FirstYear == 2026

\* monthly_income of a registration: 36 x 1000 rounds to a limit of 0,
\* 36 x 2778 = 100008 to a limit of 100000.
Incomes == {1000, 2778}

\* monthly_income of a registration where only registrations are served:
\* 36 x 1400 = 50400 rounds up, 36 x 12500 = 450000 and 36 x 37500 = 1350000
\* lie half-way between two multiples of 100000, 36 x -1400 is negative
\* (int() accepts it), and 73000 and 75000 are the incomes of tests.py.
RegisterIncomes == {-1400, 1000, 1400, 2778, 12500, 37500, 73000, 75000}

CustomerIdInputs == {Some(1), Some(2)}

\* <<loan_amount, interest_rate, tenure>> of a request, the amount in
\* hundredths: 900.75 over 2 months at 8, 12 or 16 percent, and -60.75 over
\* -1 month at 16 percent (neither sign is validated by the handlers).
LoanTermInputs ==
    {<<Some(90075), Some(8), Some(2)>>, <<Some(90075), Some(12), Some(2)>>,
     <<Some(90075), Some(16), Some(2)>>, <<Some(-6075), Some(16), Some(-1)>>}

RequestBody(cid, amount, rate, tenure) ==
    [customer_id |-> cid, loan_amount |-> amount, interest_rate |-> rate,
     tenure |-> tenure]

\* Request bodies with the four keys present and non-zero.
FullRequests ==
    {RequestBody(c, lt[1], lt[2], lt[3]) :
        c \in CustomerIdInputs, lt \in LoanTermInputs}

\* Request bodies with a key missing or holding the number 0.
PartialRequests ==
    {RequestBody(None, Some(90075), Some(12), Some(2)),
     RequestBody(Some(1), None, Some(12), Some(2)),
     RequestBody(Some(1), Some(90075), None, Some(2)),
     RequestBody(Some(1), Some(90075), Some(12), None),
     RequestBody(Some(1), Some(90075), Some(0), Some(2)),
     RequestBody(Some(1), Some(90075), Some(12), Some(0))}

\* Request bodies with interest_rate sent as the string "0": a string that is
\* not empty passes the validation, and float("0") is 0.0.
StringRequests == {RequestBody(Some(1), Some(90075), Str(0), Some(2))}

Requests == FullRequests \cup PartialRequests \cup StringRequests

\* Request bodies with interest_rate sent as NaN: it is truthy, and float()
\* returns it unchanged.
NanRequests == {RequestBody(Some(1), Some(90075), Some(NaN), Some(2))}

\* A request body with a tenure of -FarTenure months.
FarTenureRequests ==
    {RequestBody(Some(1), Some(90075), Some(12), Some(-FarTenure))}

\* The requests of the handlers served one at a time without ingestion.
SequentialRequests == Requests \cup FarTenureRequests

\* The requests of the runs that only score.
ScoringRequests == Requests \cup NanRequests

\* Rows of the customer spreadsheet and of the loan spreadsheet.
CustomerRow(cid, salary, limit) ==
    [customer_id |-> cid, monthly_salary |-> salary, approved_limit |-> limit]

LoanRow(lid, cid, amount, tenure, rate, payment, emis, approval) ==
    [loan_id |-> lid, customer_id |-> cid, loan_amount |-> amount,
     tenure |-> tenure, interest_rate |-> rate, monthly_payment |-> payment,
     emis_paid |-> emis, date_of_approval |-> approval]

\* The customer spreadsheets: customer 1 with salary 1000 and limit 1000.
CustomerFiles == {<<CustomerRow(1, 1000, 1000)>>}

\* The loan spreadsheets, all for customer 1:
\*  - one loan of last year with more EMIs paid (4) than its tenure (2) and
\*    a monthly payment of 600;
\*  - five loans of this year, none with an EMI paid, of monthly payment 100
\*    and tenure 2 (a remaining debt of 1000 in all);
\*  - one loan of last year with three EMIs paid and a tenure of -1 (the
\*    task validates no column).
PaidLoanFile == <<LoanRow(1, 1, 100000, 2, 12, 600, 4, FirstYear - 1)>>

FiveLoanFile == [i \in 1..5 |-> LoanRow(i, 1, 20000, 2, 16, 100, 0, FirstYear)]

BadTenureFile == <<LoanRow(1, 1, 100000, -1, 12, 100, 3, FirstYear - 1)>>

LoanFiles == {PaidLoanFile, FiveLoanFile, BadTenureFile}

\* The loan spreadsheets ingested beside concurrent origination: the five
\* loans above (ids 1 to 5), and one loan of last year with id 7, ten of its
\* twelve EMIs paid and a monthly payment of 100 (a remaining debt of 200).
RunningLoanFile == <<LoanRow(7, 1, 100000, 12, 12, 100, 10, FirstYear - 1)>>

ConcurrentLoanFiles == {FiveLoanFile, RunningLoanFile}

\* The loan spreadsheets of the runs that only score: the five loans, the
\* running loan, ten loans of this year for customer 1, none with an EMI
\* paid, of monthly payment 50 and tenure 2 (a remaining debt of 1000 in
\* all, the limit of the customer spreadsheet), and three such loans of
\* monthly payment 100 (a remaining debt of 600).
TenLoanFile == [i \in 1..10 |-> LoanRow(i, 1, 10000, 2, 16, 50, 0, FirstYear)]

ThreeLoanFile == [i \in 1..3 |-> LoanRow(i, 1, 20000, 2, 16, 100, 0, FirstYear)]

ScoringLoanFiles == {FiveLoanFile, RunningLoanFile, TenLoanFile, ThreeLoanFile}

Idle == request.op = "none"

-----------------------------------------------------------------------------
(* loans/views.py: the handlers.  A handler runs when no other request is  *)
(* being served (requests are served one at a time), and Reply hands its   *)
(* response to the caller.                                                 *)

\* RoundToLakh that rounds down.
RoundToLakhFloor(n) == 100000 * (n \div 100000)

\* round(n, -5) of Python on an integer.
RoundToLakh(n) == 100000 * RoundHalfEven(n, 100000)

RegisterCustomer(monthly_income) ==
    /\ Idle
    /\ Cardinality(DOMAIN customers) < MaxCustomers
    /\ LET approved_limit == RoundToLakh(36 * monthly_income)
           customer_id == NextId(customers)
       IN  /\ customers' = customers @@
                 (customer_id :> Customer(monthly_income, approved_limit, 0))
           /\ response' = [JsonResponse0 EXCEPT
                             !.status = 201,
                             !.keys = {"customer_id", "name", "age",
                                       "monthly_income", "approved_limit",
                                       "phone_number"},
                             !.customer_id = Some(customer_id),
                             !.monthly_income = monthly_income,
                             !.approved_limit = approved_limit]
    /\ request' = [op |-> "register_customer", monthly_income |-> monthly_income]
    /\ credit_score' = None
    /\ UNCHANGED <<loans, today, workers>>

\* CheckEligibility that books the amount of an approved evaluation on the
\* customer's current_debt.
CheckEligibilityBooksDebt(data) ==
    /\ Idle
    /\ request' = [op |-> "check_eligibility", data |-> data]
    /\ response' = check_eligibility(data)
    /\ credit_score' = EvaluatedScore(data)
    /\ customers' =
         IF check_eligibility(data).approval
           THEN [customers EXCEPT ![data.customer_id[1]].current_debt =
                                      @ + IntOfFloat(data.loan_amount[1])]
         ELSE customers
    /\ UNCHANGED <<loans, today, workers>>

CheckEligibility(data) ==
    /\ Idle
    /\ request' = [op |-> "check_eligibility", data |-> data]
    /\ response' = check_eligibility(data)
    /\ credit_score' = EvaluatedScore(data)
    /\ UNCHANGED <<customers, loans, today, workers>>

\* RejectionMessage with a substring test that no reason passes in the
\* place of "EMI burden".
RejectionMessageNoEmi(reason) ==
    IF reason = "Overutilized credit limit"
      THEN "Loan not approved due to overutilized credit limit"
    ELSE "Loan not approved due to low credit score"

\* The message of a rejection: the substring tests of create_loan on the
\* reasons check_eligibility produces.
RejectionMessage(reason) ==
    IF reason = "Overutilized credit limit"
      THEN "Loan not approved due to overutilized credit limit"
    ELSE IF reason = "Existing EMI burden exceeds 50% of salary"
      THEN "Loan not approved due to existing EMI burden exceeding 50% of salary"
    ELSE "Loan not approved due to low credit score"

LoanResponse(status, data, loan_id, approved, message, installment) ==
    [JsonResponse0 EXCEPT
       !.status = status,
       !.keys = {"loan_id", "customer_id", "loan_approved", "message",
                 "monthly_installment"},
       !.loan_id = loan_id,
       !.customer_id = data.customer_id,
       !.loan_approved = approved,
       !.message = message,
       !.monthly_installment = installment]

\* datetime.MINYEAR and datetime.MAXYEAR: the years a date can hold.
MINYEAR == 1

MAXYEAR == 9999

\* The year of start_date + relativedelta(months=tenure) for each month that
\* date.today() may lie in.
EndYears(tenure) == {today + ((month - 1 + tenure) \div 12) : month \in 1..12}

CreateLoan(data) ==
    LET eligibility == check_eligibility(data)
        loan_id == NextId(loans)
    IN
    /\ Idle
    /\ request' = [op |-> "create_loan", data |-> data]
    /\ credit_score' = EvaluatedScore(data)
    /\ UNCHANGED <<today, workers>>
    /\ IF ~(Truthy(data.customer_id) /\ Truthy(data.loan_amount)
            /\ Truthy(data.interest_rate) /\ Truthy(data.tenure))
         THEN /\ response' = ErrorResponse("Missing required fields", 400)
              /\ UNCHANGED <<customers, loans>>
       ELSE IF eligibility.status /= 200
         THEN /\ response' = eligibility
              /\ UNCHANGED <<customers, loans>>
       ELSE IF ~eligibility.approval
         THEN /\ response' = LoanResponse(200, data, None, FALSE,
                                 RejectionMessage(eligibility.reason), 0)
              /\ UNCHANGED <<customers, loans>>
       ELSE \E end_year \in EndYears(data.tenure[1]) :
            IF end_year < MINYEAR \/ end_year > MAXYEAR
              \* line 231 raises ValueError; the except clause answers.
              THEN /\ response' = ErrorResponse("year is out of range", 400)
                   /\ UNCHANGED <<customers, loans>>
            ELSE
            /\ Cardinality(DOMAIN loans) < MaxLoans
            /\ loans' = loans @@
                 (loan_id :> Loan(data.customer_id[1],
                                  data.loan_amount[1],
                                  data.tenure[1],
                                  eligibility.corrected_interest_rate,
                                  eligibility.monthly_installment,
                                  0,
                                  today))
            /\ customers' =
                 [customers EXCEPT ![data.customer_id[1]].current_debt =
                                       @ + IntOfFloat(data.loan_amount[1])]
            /\ response' = LoanResponse(201, data, Some(loan_id), TRUE,
                               "Loan approved and created successfully",
                               eligibility.monthly_installment)

\* The response reaches the caller; the next request can be served.
Reply ==
    /\ ~Idle
    /\ request' = [op |-> "none"]
    /\ response' = JsonResponse0
    /\ credit_score' = None
    /\ UNCHANGED <<customers, loans, today, workers>>

-----------------------------------------------------------------------------
(* loans/tasks.py: the ingestion tasks, run between two requests.          *)

RECURSIVE UpsertCustomers(_, _, _)
\* The customer table after the rows of file: a row of a customer that was
\* in the table when the task started (existing) updates its salary and
\* limit, any other row creates the customer with no debt.
UpsertCustomers(table, existing, file) ==
    IF file = <<>> THEN table
    ELSE LET row == Head(file)
             cid == row.customer_id
             new == IF cid \in existing
                      THEN [table EXCEPT
                              ![cid].monthly_salary = row.monthly_salary,
                              ![cid].approved_limit = row.approved_limit]
                    ELSE (cid :> Customer(row.monthly_salary,
                                          row.approved_limit, 0)) @@ table
         IN  UpsertCustomers(new, existing, Tail(file))

\* ingest_customer_data on a customer table: the table after the task.
ingest_customer_data(table, file) ==
    UpsertCustomers(table, DOMAIN table, file)

IngestCustomerData(file) ==
    /\ Idle
    /\ customers' = ingest_customer_data(customers, file)
    /\ UNCHANGED <<loans, today, request, response, credit_score, workers>>

\* df[df['Loan ID'] > 0].drop_duplicates(subset=['Loan ID']): the rows with
\* a positive loan id, the first of each id.
RECURSIVE CleanRows(_, _)
CleanRows(file, seen) ==
    IF file = <<>> THEN <<>>
    ELSE LET row == Head(file)
         IN  IF row.loan_id > 0 /\ row.loan_id \notin seen
               THEN <<row>> \o CleanRows(Tail(file), seen \cup {row.loan_id})
             ELSE CleanRows(Tail(file), seen)

\* remaining_debt of a row.
RemainingDebt(row) ==
    Max(0, (row.tenure - row.emis_paid) * row.monthly_payment)

\* The rows of the cleaned file whose customer is in the customer table.
RowsOfKnownCustomers(cs, file) ==
    SelectSeq(CleanRows(file, {}), LAMBDA row : row.customer_id \in DOMAIN cs)

\* The loan table after the task: the loans whose id is in the file are
\* deleted, and a loan is created for every row of a customer that exists.
IngestedLoans(cs, ls, file) ==
    LET df == CleanRows(file, {})
        loan_ids == {df[k].loan_id : k \in 1..Len(df)}
        kept == [i \in (DOMAIN ls) \ loan_ids |-> ls[i]]
        rows == RowsOfKnownCustomers(cs, file)
        created == [i \in {rows[k].loan_id : k \in 1..Len(rows)} |->
                      LET row == CHOOSE r \in {rows[k] : k \in 1..Len(rows)} :
                                    r.loan_id = i
                      IN  Loan(row.customer_id, row.loan_amount, row.tenure,
                               row.interest_rate, 100 * row.monthly_payment,
                               row.emis_paid, row.date_of_approval)]
    IN  created @@ kept

\* ingest_loan_data with customer.current_debt += debt in the place of
\* customer.current_debt = debt.
ingest_loan_data_adds_debt(cs, ls, file) ==
    LET rows == RowsOfKnownCustomers(cs, file)
        customer_debts(cid) ==
            SumOver(RemainingDebt,
                    SelectSeq(rows, LAMBDA row : row.customer_id = cid))
        touched == {rows[k].customer_id : k \in 1..Len(rows)}
    IN  [customers |->
            [cid \in DOMAIN cs |->
                IF cid \in touched
                  THEN [cs[cid] EXCEPT !.current_debt = @ + customer_debts(cid)]
                ELSE cs[cid]],
         loans |-> IngestedLoans(cs, ls, file)]

\* ingest_loan_data on a customer table and a loan table: the two tables
\* after the task (one transaction).  The current_debt of every customer
\* with a row in the file is set to the sum of the rows' remaining debts.
ingest_loan_data(cs, ls, file) ==
    LET rows == RowsOfKnownCustomers(cs, file)
        customer_debts(cid) ==
            SumOver(RemainingDebt,
                    SelectSeq(rows, LAMBDA row : row.customer_id = cid))
        touched == {rows[k].customer_id : k \in 1..Len(rows)}
    IN  [customers |->
            [cid \in DOMAIN cs |->
                IF cid \in touched
                  THEN [cs[cid] EXCEPT !.current_debt = customer_debts(cid)]
                ELSE cs[cid]],
         loans |-> IngestedLoans(cs, ls, file)]

IngestLoanData(file) ==
    LET after == ingest_loan_data(customers, loans, file)
    IN  /\ Idle
        /\ loans' = after.loans
        /\ customers' = after.customers
        /\ UNCHANGED <<today, request, response, credit_score, workers>>

-----------------------------------------------------------------------------
(* loans/views.py: create_loan served by concurrent workers.  The handler  *)
(* runs outside any transaction, so each of its database calls is a step   *)
(* of its own: the evaluation (the nested check_eligibility call), the     *)
(* read of the customer row, the insertion of the loan row and the write   *)
(* of the customer row.  A call that raises ends the request in the        *)
(* handler's except clause.  A worker serves one request.                  *)

\* The most workers that serve create_loan at the same time.
MaxWorkers == 2

Workers == 1..MaxWorkers

\* The create_loan requests of the workers: 900.75 for customer 1 at 8 and
\* at 16 percent, 900.75 for customer 2, and a body without loan_amount.
WorkerRequests ==
    {RequestBody(Some(1), Some(90075), Some(8), Some(2)),
     RequestBody(Some(1), Some(90075), Some(16), Some(2)),
     RequestBody(Some(2), Some(90075), Some(12), Some(2)),
     RequestBody(Some(1), None, Some(12), Some(2))}

\* A worker that serves no request: pc is the worker's place in create_loan,
\* data the request body, eligibility the parsed eligibility response,
\* customer the row read by Customer.objects.get, loan_id the id of the loan
\* row it inserted, response its response.
IdleWorker ==
    [pc |-> "idle", data |-> RequestBody(None, None, None, None),
     eligibility |-> JsonResponse0, customer |-> None, loan_id |-> None,
     response |-> JsonResponse0]

\* Lines 174-218: validation, the nested evaluation and the response of a
\* request that is not approved.
BeginCreateLoan(w, data) ==
    LET eligibility == check_eligibility(data)
        valid == /\ Truthy(data.customer_id) /\ Truthy(data.loan_amount)
                 /\ Truthy(data.interest_rate) /\ Truthy(data.tenure)
        finished(resp) == [workers[w] EXCEPT !.pc = "done", !.data = data,
                                             !.response = resp]
    IN  /\ workers[w].pc = "idle"
        /\ workers' = [workers EXCEPT ![w] =
              IF ~valid
                THEN finished(ErrorResponse("Missing required fields", 400))
              ELSE IF eligibility.status /= 200 THEN finished(eligibility)
              ELSE IF ~eligibility.approval
                THEN finished(LoanResponse(200, data, None, FALSE,
                                  RejectionMessage(eligibility.reason), 0))
              ELSE [workers[w] EXCEPT !.pc = "approved", !.data = data,
                                      !.eligibility = eligibility]]
        /\ UNCHANGED <<customers, loans, today, request, response,
                       credit_score>>

\* Line 222: customer = Customer.objects.get(customer_id=customer_id).
GetCustomer(w) ==
    /\ workers[w].pc = "approved"
    /\ workers[w].data.customer_id[1] \in DOMAIN customers
    /\ workers' = [workers EXCEPT
                     ![w].pc = "fetched",
                     ![w].customer = Some(customers[workers[w].data.customer_id[1]])]
    /\ UNCHANGED <<customers, loans, today, request, response, credit_score>>

\* Lines 237-246: Loan.objects.create(...), committed on its own.
InsertLoan(w) ==
    LET data == workers[w].data
        loan_id == NextId(loans)
    IN  /\ workers[w].pc = "fetched"
        /\ Cardinality(DOMAIN loans) < MaxLoans
        /\ loans' = loans @@
             (loan_id :> Loan(data.customer_id[1],
                              data.loan_amount[1],
                              data.tenure[1],
                              workers[w].eligibility.corrected_interest_rate,
                              workers[w].eligibility.monthly_installment,
                              0,
                              today))
        /\ workers' = [workers EXCEPT ![w].pc = "created",
                                      ![w].loan_id = Some(loan_id)]
        /\ UNCHANGED <<customers, today, request, response, credit_score>>

\* Lines 249-258: customer.current_debt += int(loan_amount); customer.save()
\* writes every field of the row the worker read, and the response follows.
SaveCustomer(w) ==
    LET data == workers[w].data
        customer == workers[w].customer[1]
    IN  /\ workers[w].pc = "created"
        /\ customers' =
             [customers EXCEPT ![data.customer_id[1]] =
                 [customer EXCEPT !.current_debt =
                                      @ + IntOfFloat(data.loan_amount[1])]]
        /\ workers' = [workers EXCEPT
              ![w].pc = "done",
              ![w].response =
                  LoanResponse(201, data, workers[w].loan_id, TRUE,
                               "Loan approved and created successfully",
                               workers[w].eligibility.monthly_installment)]
        /\ UNCHANGED <<loans, today, request, response, credit_score>>

\* Lines 260-261: a database call of lines 222-250 raises; the except clause
\* answers 400 with the text of the exception and undoes nothing.
RaiseException(w) ==
    /\ workers[w].pc \in {"approved", "fetched", "created"}
    /\ workers' = [workers EXCEPT
                     ![w].pc = "done",
                     ![w].response = ErrorResponse("exception", 400)]
    /\ UNCHANGED <<customers, loans, today, request, response, credit_score>>

-----------------------------------------------------------------------------
(* The specifications.                                                     *)

Init ==
    /\ customers = <<>>
    /\ loans = <<>>
    /\ today = FirstYear
    /\ request = [op |-> "none"]
    /\ response = JsonResponse0
    /\ credit_score = None
    /\ workers = [w \in Workers |-> IdleWorker]

Next ==
    \/ \E monthly_income \in Incomes : RegisterCustomer(monthly_income)
    \/ \E data \in Requests : CheckEligibility(data)
    \/ \E data \in Requests : CreateLoan(data)
    \/ Reply
    \/ \E file \in CustomerFiles : IngestCustomerData(file)
    \/ \E file \in LoanFiles : IngestLoanData(file)

\* Requests served one at a time, each handler in one step.
Spec == Init /\ [][Next]_vars

\* Registration and concurrent origination, without ingestion.
NextOrigination ==
    \/ \E monthly_income \in Incomes : RegisterCustomer(monthly_income)
    \/ Reply
    \/ \E w \in Workers, data \in WorkerRequests : BeginCreateLoan(w, data)
    \/ \E w \in Workers : GetCustomer(w)
    \/ \E w \in Workers : InsertLoan(w)
    \/ \E w \in Workers : SaveCustomer(w)
    \/ \E w \in Workers : RaiseException(w)

\* Registrations only.
NextRegister ==
    \/ \E monthly_income \in RegisterIncomes : RegisterCustomer(monthly_income)
    \/ Reply

SpecRegister == Init /\ [][NextRegister]_vars

SpecOrigination == Init /\ [][NextOrigination]_vars

\* Concurrent origination with the ingestion tasks run beside it.
NextConcurrent ==
    \/ NextOrigination
    \/ \E file \in CustomerFiles : IngestCustomerData(file)
    \/ \E file \in ConcurrentLoanFiles : IngestLoanData(file)

SpecConcurrent == Init /\ [][NextConcurrent]_vars

\* The handlers served one at a time, without ingestion.
NextSequential ==
    \/ \E monthly_income \in Incomes : RegisterCustomer(monthly_income)
    \/ \E data \in SequentialRequests : CheckEligibility(data)
    \/ \E data \in SequentialRequests : CreateLoan(data)
    \/ Reply

SpecSequential == Init /\ [][NextSequential]_vars

\* Ingestion and check_eligibility only: the stores are those of the
\* spreadsheets.
NextScoring ==
    \/ \E data \in ScoringRequests : CheckEligibility(data)
    \/ Reply
    \/ \E file \in CustomerFiles : IngestCustomerData(file)
    \/ \E file \in ScoringLoanFiles : IngestLoanData(file)

SpecScoring == Init /\ [][NextScoring]_vars

-----------------------------------------------------------------------------
(* Properties.  After a handler has run and before Reply, request holds    *)
(* the request it served, response its response and credit_score the score *)
(* it computed; check_eligibility leaves the tables as it found them, so   *)
(* the tables of such a state are the ones the evaluation read.            *)

Evaluated == request.op = "check_eligibility" /\ response.status = 200

RequestCustomer == customers[request.data.customer_id[1]]

RequestLoans == LoansOf(loans, request.data.customer_id[1])

RequestedRate == request.data.interest_rate[1]

Overutilized(customer) == customer.current_debt > customer.approved_limit

ScoreOf(cid) == calculate_credit_score(customers[cid], LoansOf(loans, cid), today)

\* C1: the score of a customer whose current_debt exceeds approved_limit is
\* 0, whatever loans the customer has: for every customer of every reachable
\* table, and for the score every evaluation computed.
C1_OverutilizedScoresZero ==
    /\ \A cid \in DOMAIN customers :
          Overutilized(customers[cid]) => ScoreOf(cid) = 0
    /\ (Evaluated /\ Overutilized(RequestCustomer)) => credit_score = Some(0)

\* An evaluation of an overutilized customer with more than one loan, of
\* different tenures, scored 0.
C1_Witness ==
    /\ Evaluated
    /\ Overutilized(RequestCustomer)
    /\ Len(RequestLoans) > 1
    /\ \E j, k \in 1..Len(RequestLoans) :
          RequestLoans[j].tenure /= RequestLoans[k].tenure
    /\ credit_score = Some(0)

\* C2: the score of a customer with no loan and current_debt at most
\* approved_limit is exactly 50.
C2_NewCustomerScoresFifty ==
    /\ \A cid \in DOMAIN customers :
          (~Overutilized(customers[cid]) /\ Len(LoansOf(loans, cid)) = 0)
             => ScoreOf(cid) = 5000
    /\ (Evaluated /\ ~Overutilized(RequestCustomer) /\ Len(RequestLoans) = 0)
          => credit_score = Some(5000)

\* An evaluation of a customer without loans whose debt equals the limit
\* (both 0) scored 50.
C2_Witness ==
    /\ Evaluated
    /\ Len(RequestLoans) = 0
    /\ RequestCustomer.approved_limit = 0
    /\ RequestCustomer.current_debt = 0
    /\ credit_score = Some(5000)

\* C3: every score lies between 0 and 100 (0 and 10000 hundredths), also
\* when the weighted sum before the clamp lies outside.
C3_ScoreInRange ==
    /\ \A cid \in DOMAIN customers : ScoreOf(cid) \in 0..10000
    /\ credit_score /= None => credit_score[1] \in 0..10000

\* An evaluation whose weighted sum was above 100 (more EMIs paid than the
\* tenure) scored 100.
C3_Witness ==
    /\ Evaluated
    /\ ~Overutilized(RequestCustomer)
    /\ Len(RequestLoans) > 0
    /\ total_score(RequestCustomer, RequestLoans, today)[1] > 10000
    /\ credit_score = Some(10000)

\* C4: an approval returns a corrected rate of at least 12 for a score in
\* (30,50] and of at least 16 for a score in (10,30].
C4_ApprovalMeetsBandFloor ==
    (Evaluated /\ response.approval) =>
        /\ (3000 < credit_score[1] /\ credit_score[1] <= 5000)
              => response.corrected_interest_rate >= 12
        /\ (1000 < credit_score[1] /\ credit_score[1] <= 3000)
              => response.corrected_interest_rate >= 16

\* An approval for a score in (10,30] of a request at 8 percent.
C4_Witness ==
    /\ Evaluated
    /\ response.approval
    /\ 1000 < credit_score[1] /\ credit_score[1] <= 3000
    /\ RequestedRate = 8
    /\ response.corrected_interest_rate = 16

\* C5: an evaluation that reaches step 6 (it is rejected neither for a zero
\* score nor for the EMI burden) is approved when the score is above 50, and
\* no evaluation with a score of at most 10 is approved.
C5_ApprovalByBand ==
    Evaluated =>
        /\ (/\ credit_score[1] > 5000
            /\ response.reason /= "Overutilized credit limit"
            /\ response.reason /= "Existing EMI burden exceeds 50% of salary")
              => response.approval
        /\ credit_score[1] <= 1000 => ~response.approval

\* A rejection at step 6 of a request at 16 percent, for a score in (0,10].
C5_Witness ==
    /\ Evaluated
    /\ 0 < credit_score[1] /\ credit_score[1] <= 1000
    /\ RequestedRate = 16
    /\ ~response.approval
    /\ response.reason = "Credit score too low (<=10)"

\* C6: an evaluation whose score is 0 is rejected with the reason
\* "Overutilized credit limit", installment 0 and the requested rate as the
\* corrected rate, whether or not the EMI burden is above half the salary.
C6_ZeroScoreRejectedFirst ==
    (Evaluated /\ credit_score = Some(0)) =>
        /\ ~response.approval
        /\ "reason" \in response.keys
        /\ response.reason = "Overutilized credit limit"
        /\ response.monthly_installment = 0
        /\ response.corrected_interest_rate = RequestedRate
        /\ response.interest_rate = RequestedRate

\* An evaluation with score 0 of a customer whose repayments exceed half the
\* salary.
C6_Witness ==
    /\ Evaluated
    /\ credit_score = Some(0)
    /\ 2 * SumOver(GetRepayment, RequestLoans)
          > 100 * RequestCustomer.monthly_salary
    /\ response.reason = "Overutilized credit limit"

\* The corrected rate of step 3 for a score s and a requested rate r.
BandRate(s, r) ==
    IF 3000 < s /\ s <= 5000 /\ r < 12 THEN 12
    ELSE IF 1000 < s /\ s <= 3000 /\ r < 16 THEN 16
    ELSE r

\* C7: for a score other than 0, the evaluation is rejected for the EMI
\* burden exactly when the repayments of the customer's existing loans sum
\* to strictly more than half the salary, and the rejection has installment
\* 0 and the corrected rate of step 3.
C7_EmiBurdenRejection ==
    (Evaluated /\ credit_score /= Some(0)) =>
        LET exceeded == 2 * SumOver(GetRepayment, RequestLoans)
                           > 100 * RequestCustomer.monthly_salary
        IN  /\ exceeded =>
                 /\ ~response.approval
                 /\ response.reason = "Existing EMI burden exceeds 50% of salary"
                 /\ response.monthly_installment = 0
                 /\ response.corrected_interest_rate
                       = BandRate(credit_score[1], RequestedRate)
            /\ ~exceeded =>
                 response.reason /= "Existing EMI burden exceeds 50% of salary"

\* A rejection for the EMI burden of a request at 8 percent, for a score in
\* (10,30]: the corrected rate is 16.
C7_Witness ==
    /\ Evaluated
    /\ 1000 < credit_score[1] /\ credit_score[1] <= 3000
    /\ RequestedRate = 8
    /\ response.reason = "Existing EMI burden exceeds 50% of salary"
    /\ response.corrected_interest_rate = 16

\* C8: the corrected rate of an evaluation is 12 for a score in (30,50] and
\* a requested rate below 12, 16 for a score in (10,30] and a requested rate
\* below 16, and the requested rate in every other case.
C8_RateCorrection ==
    Evaluated =>
        response.corrected_interest_rate
            = BandRate(credit_score[1], RequestedRate)

\* An evaluation for a score in (30,50] of a request at 8 percent: 12.
C8_Witness ==
    /\ Evaluated
    /\ 3000 < credit_score[1] /\ credit_score[1] <= 5000
    /\ RequestedRate = 8
    /\ response.corrected_interest_rate = 12

\* int() of a float in hundredths.
Truncated(x) == IF x >= 0 THEN x \div 100 ELSE -((-x) \div 100)

\* C9: an approved create_loan adds exactly one loan, of the customer, with
\* the corrected rate and installment of the evaluation, no EMI paid and the
\* requested tenure and amount; it adds the truncated amount to the
\* customer's current_debt, changes nothing else, and returns the id of the
\* loan with loan_approved true.
C9_ApprovedLoanCreated ==
    [][(request'.op = "create_loan" /\ response'.loan_approved) =>
          LET data == request'.data
              cid == data.customer_id[1]
              evaluation == check_eligibility(data)
              new == (DOMAIN loans') \ (DOMAIN loans)
          IN  /\ Cardinality(new) = 1
              /\ DOMAIN loans \subseteq DOMAIN loans'
              /\ \A i \in DOMAIN loans : loans'[i] = loans[i]
              /\ \A i \in new :
                    /\ loans'[i].customer = cid
                    /\ loans'[i].loan_amount = data.loan_amount[1]
                    /\ loans'[i].tenure = data.tenure[1]
                    /\ loans'[i].interest_rate
                          = evaluation.corrected_interest_rate
                    /\ loans'[i].monthly_repayment
                          = evaluation.monthly_installment
                    /\ loans'[i].emis_paid_on_time = 0
                    /\ loans'[i].start_date = today
                    /\ response'.loan_id = Some(i)
              /\ DOMAIN customers' = DOMAIN customers
              /\ customers'[cid] =
                    [customers[cid] EXCEPT
                       !.current_debt = @ + Truncated(data.loan_amount[1])]
              /\ \A c \in DOMAIN customers \ {cid} :
                    customers'[c] = customers[c]
              /\ evaluation.approval
              /\ response'.status = 201
              /\ response'.monthly_installment = evaluation.monthly_installment
      ]_vars

\* An approved create_loan of 900.75 at 8 percent: the loan carries another
\* rate than the requested one, and the debt of the customer is 900.
C9_Witness ==
    /\ request.op = "create_loan"
    /\ response.loan_approved
    /\ response.loan_id /= None
    /\ request.data.loan_amount = Some(90075)
    /\ loans[response.loan_id[1]].interest_rate /= RequestedRate
    /\ loans[response.loan_id[1]].monthly_repayment > 0
    /\ RequestCustomer.current_debt = 900

\* C10: a create_loan whose evaluation is not approved leaves the loans and
\* the customers as they were, and returns a null loan_id, loan_approved
\* false, installment 0 and the message of the evaluation's reason.
C10_RejectedLoanChangesNothing ==
    [][(/\ request'.op = "create_loan"
        /\ response'.status = 200
        /\ ~response'.loan_approved) =>
          LET reason == check_eligibility(request'.data).reason
          IN  /\ loans' = loans
              /\ customers' = customers
              /\ response'.loan_id = None
              /\ response'.monthly_installment = 0
              /\ response'.message =
                    IF reason = "Overutilized credit limit"
                      THEN "Loan not approved due to overutilized credit limit"
                    ELSE IF reason = "Existing EMI burden exceeds 50% of salary"
                      THEN "Loan not approved due to existing EMI burden exceeding 50% of salary"
                    ELSE "Loan not approved due to low credit score"
      ]_vars

\* A create_loan rejected for a low score although its evaluation computed
\* an installment other than 0.
C10_Witness ==
    /\ request.op = "create_loan"
    /\ response.status = 200
    /\ ~response.loan_approved
    /\ response.loan_id = None
    /\ response.monthly_installment = 0
    /\ check_eligibility(request.data).monthly_installment /= 0
    /\ response.message = "Loan not approved due to low credit score"

-----------------------------------------------------------------------------
(* Origination by concurrent workers.                                      *)

Principal(l) == Truncated(l.loan_amount)

\* The sum of int(loan_amount) over the loans of a customer in the store.
PrincipalSum(cid) == SumOver(Principal, LoansOf(loans, cid))

\* The workers whose create_loan for the customer is between its approval
\* and its response.
InFlight(cid) ==
    {w \in Workers : /\ workers[w].pc \in {"approved", "fetched", "created"}
                     /\ workers[w].data.customer_id = Some(cid)}

\* The workers whose create_loan inserted a loan row for the customer.
Originations(cid) ==
    {w \in Workers : /\ workers[w].loan_id /= None
                     /\ workers[w].data.customer_id = Some(cid)}

\* C11: origination is atomic, also when a step of create_loan fails after
\* the loan row was written: no loan created by create_loan is in the store
\* without its principal in the customer's current_debt.  Stated where no
\* create_loan of the customer is under way and at most one loan was
\* originated for the customer, so that no second increment interferes.
C11_OriginationAtomic ==
    \A cid \in DOMAIN customers :
        (InFlight(cid) = {} /\ Cardinality(Originations(cid)) <= 1)
            => customers[cid].current_debt = PrincipalSum(cid)

\* C12: no update of current_debt is lost: when the concurrent create_loan
\* requests of a customer have all returned, and every one that inserted a
\* loan has written its increment (it answered 201), current_debt is the
\* initial debt (0) plus the sum of int(loan_amount) over the created loans.
C12_NoLostUpdate ==
    \A cid \in DOMAIN customers :
        (/\ InFlight(cid) = {}
         /\ \A w \in Originations(cid) : workers[w].response.status = 201)
            => customers[cid].current_debt = PrincipalSum(cid)

-----------------------------------------------------------------------------
(* Properties of the handlers served one at a time.                        *)

\* C13: a customer created by register_customer starts with current_debt 0,
\* and no create_loan, whatever request passes its validation (a negative
\* loan_amount included), lowers the current_debt of a customer.
C13_DebtNeverDecreases ==
    [][/\ request'.op = "register_customer" =>
             customers'[response'.customer_id[1]].current_debt = 0
       /\ request'.op = "create_loan" =>
             \A cid \in DOMAIN customers :
                 customers'[cid].current_debt >= customers[cid].current_debt
      ]_vars

\* C14: a loan created by create_loan is stored with emis_paid_on_time = 0
\* and, as every loan of the store, with emis_paid_on_time <= tenure, for
\* every request create_loan accepts (a negative tenure included).
C14_EmisWithinTenure ==
    (request.op = "create_loan" /\ response.loan_approved) =>
        LET loan == loans[response.loan_id[1]]
        IN  /\ loan.emis_paid_on_time = 0
            /\ loan.emis_paid_on_time <= loan.tenure

\* C15: register_customer stores an approved_limit that is a multiple of
\* 100000 at most 50000 away from 36 x monthly_income, with current_debt 0
\* and the income as monthly_salary, and returns that limit; an income of
\* 73000 gives 2600000 and one of 75000 gives 2700000.
C15_RegisterRoundsLimit ==
    request.op = "register_customer" =>
        LET monthly_income == request.monthly_income
            customer == customers[response.customer_id[1]]
        IN  /\ customer.approved_limit % 100000 = 0
            /\ Abs(customer.approved_limit - 36 * monthly_income) <= 50000
            /\ customer.current_debt = 0
            /\ customer.monthly_salary = monthly_income
            /\ response.approved_limit = customer.approved_limit
            /\ monthly_income = 73000 => customer.approved_limit = 2600000
            /\ monthly_income = 75000 => customer.approved_limit = 2700000

\* A registration with an income of 1400: 50400 is rounded up to 100000.
C15_Witness ==
    /\ request.op = "register_customer"
    /\ request.monthly_income = 1400
    /\ response.status = 201
    /\ customers[response.customer_id[1]].approved_limit = 100000

AllPresent(data) ==
    /\ data.customer_id /= None /\ data.loan_amount /= None
    /\ data.interest_rate /= None /\ data.tenure /= None

AllTruthy(data) ==
    /\ Truthy(data.customer_id) /\ Truthy(data.loan_amount)
    /\ Truthy(data.interest_rate) /\ Truthy(data.tenure)

C17_EligibilityReadOnly ==
    [][request'.op = "check_eligibility" =>
          /\ loans' = loans
          /\ customers' = customers
          /\ today' = today
          /\ \A cid \in DOMAIN customers' :
                DOMAIN customers'[cid]
                   = {"monthly_salary", "approved_limit", "current_debt"}
          /\ response' = check_eligibility(request'.data)
      ]_vars

\* An approved evaluation for a customer who has a loan.
C17_Witness ==
    /\ Evaluated
    /\ response.approval
    /\ Len(RequestLoans) > 0
    /\ RequestCustomer.current_debt > 0

\* C18: an evaluation whose corrected rate is 0, so that the monthly rate R
\* is 0, returns a normal result with installment 0 and no error.
C18_ZeroRateInstallmentZero ==
    (/\ request.op = "check_eligibility"
     /\ AllTruthy(request.data)
     /\ request.data.customer_id[1] \in DOMAIN customers
     /\ BandRate(ScoreOf(request.data.customer_id[1]), RequestedRate) = 0)
        => /\ response.status = 200
           /\ "error" \notin response.keys
           /\ response.corrected_interest_rate = 0
           /\ response.monthly_installment = 0

\* An evaluation that reached step 5 with the rate "0" for a score above 50:
\* it is approved with installment 0.
C18_Witness ==
    /\ Evaluated
    /\ request.data.interest_rate = Str(0)
    /\ credit_score[1] > 5000
    /\ response.approval
    /\ response.corrected_interest_rate = 0
    /\ response.monthly_installment = 0

\* C19: a second run of ingest_customer_data and ingest_loan_data on the
\* same files leaves the customers and the loans (every current_debt
\* included) as the first run left them, from every store the tasks can
\* find (they run between two requests); so does a second run of either
\* task alone.
C19_IngestionIdempotent ==
    Idle => \A cf \in CustomerFiles, lf \in LoanFiles :
        LET c1    == ingest_customer_data(customers, cf)
            once  == ingest_loan_data(c1, loans, lf)
            c2    == ingest_customer_data(once.customers, cf)
            twice == ingest_loan_data(c2, once.loans, lf)
        IN  /\ twice = once
            /\ ingest_customer_data(c1, cf) = c1
            /\ ingest_loan_data(once.customers, once.loans, lf) = once

\* A store left by a run of ingest_loan_data on the file of five loans: the
\* loans of the file are stored and the debt is their remaining debt.
C19_Witness ==
    /\ 1 \in DOMAIN customers
    /\ customers[1].current_debt = 1000
    /\ loans = IngestedLoans(customers, loans, FiveLoanFile)
    /\ [customers |-> customers, loans |-> loans]
          = ingest_loan_data(customers, loans, FiveLoanFile)

\* C20: ingestion does not destroy an origination: once a create_loan of a
\* worker has answered 201, the loan it created stays in the store and the
\* customer's current_debt stays at least its principal (the principals of
\* the workers' requests are positive), whatever ingestion runs beside it.
C20_IngestionKeepsOrigination ==
    \A w \in Workers :
        (workers[w].pc = "done" /\ workers[w].response.status = 201) =>
            LET data == workers[w].data
                i == workers[w].loan_id[1]
                cid == data.customer_id[1]
            IN  /\ i \in DOMAIN loans
                /\ loans[i].customer = cid
                /\ loans[i].loan_amount = data.loan_amount[1]
                /\ loans[i].emis_paid_on_time = 0
                /\ customers[cid].current_debt >= Truncated(data.loan_amount[1])

-----------------------------------------------------------------------------
(* Serial orders of two create_loan requests of one customer.              *)

\* The outcome of create_loan for first and then for second, each served to
\* its end before the next, on a customer registered with current_debt 0
\* and no loan: the two approval flags, the final current_debt and the
\* final loans of the customer (as a set, and their number).
SerialOutcome(cid, first, second) ==
    LET c0 == [customers[cid] EXCEPT !.current_debt = 0]
        r1 == Evaluate(c0, <<>>, first.loan_amount[1],
                       first.interest_rate[1], first.tenure[1])
        NewLoan(d, r) == Loan(cid, d.loan_amount[1], d.tenure[1],
                              r.corrected_interest_rate,
                              r.monthly_installment, 0, today)
        l1 == IF r1.approval THEN <<NewLoan(first, r1)>> ELSE <<>>
        c1 == IF r1.approval
                THEN [c0 EXCEPT !.current_debt =
                                    @ + Truncated(first.loan_amount[1])]
              ELSE c0
        r2 == Evaluate(c1, l1, second.loan_amount[1],
                       second.interest_rate[1], second.tenure[1])
        l2 == IF r2.approval THEN l1 \o <<NewLoan(second, r2)>> ELSE l1
        c2 == IF r2.approval
                THEN [c1 EXCEPT !.current_debt =
                                    @ + Truncated(second.loan_amount[1])]
              ELSE c1
    IN  [first |-> r1.approval, second |-> r2.approval,
         current_debt |-> c2.current_debt,
         loans |-> {l2[k] : k \in 1..Len(l2)}, count |-> Len(l2)]

\* The outcome the two workers produced: their approval flags and the store.
ObservedOutcome(cid, w1, w2) ==
    LET ls == LoansOf(loans, cid)
    IN  [first |-> workers[w1].response.loan_approved,
         second |-> workers[w2].response.loan_approved,
         current_debt |-> customers[cid].current_debt,
         loans |-> {ls[k] : k \in 1..Len(ls)}, count |-> Len(ls)]

\* The worker's create_loan returned an approval or a rejection (it did not
\* fail and was not turned away before the evaluation).
Answered(w) ==
    /\ workers[w].pc = "done"
    /\ "loan_approved" \in workers[w].response.keys

\* C21: two concurrent create_loan requests of one customer are
\* serializable: when both have answered, and no other create_loan was
\* served for the customer, their approval flags, the customer's
\* current_debt and the customer's loans are those of one of the two serial
\* orders.
C21_OriginationSerializable ==
    \A w1, w2 \in Workers :
        \A cid \in DOMAIN customers :
            (/\ w1 /= w2
             /\ Answered(w1) /\ Answered(w2)
             /\ workers[w1].data.customer_id = Some(cid)
             /\ workers[w2].data.customer_id = Some(cid)
             /\ \A w \in Workers \ {w1, w2} :
                    workers[w].data.customer_id /= Some(cid))
            => \/ ObservedOutcome(cid, w1, w2)
                    = SerialOutcome(cid, workers[w1].data, workers[w2].data)
               \/ LET s == SerialOutcome(cid, workers[w2].data,
                                         workers[w1].data)
                  IN  ObservedOutcome(cid, w1, w2)
                        = [s EXCEPT !.first = s.second, !.second = s.first]

-----------------------------------------------------------------------------
(* The score as a formula.                                                 *)

GetEmisPaid(l) == l.emis_paid_on_time

GetLoanTenure(l) == l.tenure

\* The sum of the four components for a customer and the customer's loans,
\* in hundredths of a point, as the fraction <<n, d>> with d > 0:
\* 40 x (paid / tenures, or 0) + 1.5 x max(0, 10 - count)
\* + max(15 - 3 x loans of this year, 0) + 30 x (1 - debt / limit, the
\* ratio 0 when the limit is 0).
ComponentSum(customer, ls) ==
    LET paid    == SumOver(GetEmisPaid, ls)
        tenures == SumOver(GetLoanTenure, ls)
        limit   == customer.approved_limit
        debt    == customer.current_debt
        recent  == Cardinality({k \in 1..Len(ls) : ls[k].start_date = today})
        \* 40 x paid / tenures as a / b
        sa == IF tenures < 0 THEN -1 ELSE 1
        ga == IF tenures = 0 THEN 1 ELSE GCD(Abs(4000 * paid), Abs(tenures))
        a  == IF tenures = 0 THEN 0 ELSE (sa * 4000 * paid) \div ga
        b  == IF tenures = 0 THEN 1 ELSE Abs(tenures) \div ga
        \* 30 x (1 - debt / limit) as p / q
        sp == IF limit < 0 THEN -1 ELSE 1
        gp == IF limit = 0 THEN 1 ELSE GCD(Abs(3000 * (limit - debt)), Abs(limit))
        p  == IF limit = 0 THEN 3000 ELSE (sp * 3000 * (limit - debt)) \div gp
        q  == IF limit = 0 THEN 1 ELSE Abs(limit) \div gp
        whole == 150 * Max(0, 10 - Len(ls)) + 100 * Max(15 - 3 * recent, 0)
    IN  <<a * q + p * b + whole * b * q, b * q>>

\* s is round(clamp(n / d, 0, 100 points), 2) in hundredths of a point: the
\* clamped value when the sum leaves the range, else a nearest hundredth
\* (the even one of two nearest).
IsClampedRounding(s, f) ==
    LET n == f[1]
        d == f[2]
    IN  IF n <= 0 THEN s = 0
        ELSE IF n >= 10000 * d THEN s = 10000
        ELSE /\ 2 * Abs(s * d - n) <= d
             /\ (2 * Abs(s * d - n) = d) => s % 2 = 0

\* C22: for a customer with at least one loan and current_debt at most
\* approved_limit, the score the handler computed is the sum of the four
\* weighted components, clamped to [0, 100] and rounded to two decimals.
C22_ScoreFormula ==
    (Evaluated /\ Len(RequestLoans) >= 1 /\ ~Overutilized(RequestCustomer))
        => /\ credit_score /= None
           /\ IsClampedRounding(credit_score[1],
                                ComponentSum(RequestCustomer, RequestLoans))

\* An evaluation of a customer with a loan of an earlier year, EMIs paid, a
\* positive limit and a debt within it, whose score is neither clamped nor
\* a whole number of points.
C22_Witness ==
    /\ Evaluated
    /\ Len(RequestLoans) >= 1
    /\ ~Overutilized(RequestCustomer)
    /\ RequestCustomer.approved_limit > 0
    /\ RequestCustomer.current_debt > 0
    /\ SumOver(GetEmisPaid, RequestLoans) > 0
    /\ \E k \in 1..Len(RequestLoans) : RequestLoans[k].start_date < today
    /\ credit_score /= None
    /\ credit_score[1] > 0 /\ credit_score[1] < 10000
    /\ credit_score[1] % 100 /= 0

-----------------------------------------------------------------------------
(* The reason of a zero score.                                             *)

\* C23: check_eligibility gives the reason "Overutilized credit limit" only
\* for a customer whose current_debt exceeds approved_limit; a customer
\* within the limit whose four score components are all 0 is not reported
\* as overutilized.
C23_OverutilizedReasonOnlyAboveLimit ==
    (Evaluated /\ response.reason = "Overutilized credit limit")
        => Overutilized(RequestCustomer)

-----------------------------------------------------------------------------
(* The rejections of step 6.                                               *)

BandReasons ==
    {"Interest rate too low for credit score range 30-50",
     "Interest rate too low for credit score range 10-30"}

\* The evaluation of the request reached step 6 with a score in (10, 50].
DecidedInFlooredBands ==
    /\ Evaluated
    /\ credit_score /= None
    /\ 1000 < credit_score[1] /\ credit_score[1] <= 5000
    /\ ~EmiBurdenExceeded(RequestCustomer, RequestLoans)

\* C24 as claimed: every evaluation with a score in (10, 50] that passes
\* the EMI-burden check is approved, whatever rate is requested, and no
\* evaluation returns a band-specific reason or "Credit score too low".
C24_FlooredBandsAlwaysApproved ==
    /\ DecidedInFlooredBands => response.approval
    /\ Evaluated => response.reason \notin BandReasons \cup {"Credit score too low"}

-----------------------------------------------------------------------------
(* Origination by the handlers served one at a time, without ingestion.    *)

\* The step serves a create_loan request that passes the validation.
ServesCreateLoan ==
    /\ request.op = "none"
    /\ request'.op = "create_loan"
    /\ AllTruthy(request'.data)

\* C25: overutilization is absorbing: while a customer's current_debt
\* exceeds approved_limit, every create_loan for the customer that passes
\* the validation is rejected with the overutilization message, and no step
\* changes the customer's row or the customer's loans.
C25_OverutilizationAbsorbing ==
    [][\A cid \in DOMAIN customers :
          Overutilized(customers[cid]) =>
              /\ customers'[cid] = customers[cid]
              /\ LoansOf(loans', cid) = LoansOf(loans, cid)
              /\ (ServesCreateLoan /\ request'.data.customer_id[1] = cid) =>
                     /\ response'.status = 200
                     /\ response'.loan_approved = FALSE
                     /\ response'.loan_id = None
                     /\ response'.message =
                          "Loan not approved due to overutilized credit limit"
      ]_vars

\* A create_loan for a customer with a loan and a current_debt above the
\* limit was rejected with the overutilization message.
C25_Witness ==
    /\ request.op = "create_loan"
    /\ AllTruthy(request.data)
    /\ request.data.customer_id[1] \in DOMAIN customers
    /\ Overutilized(RequestCustomer)
    /\ Len(RequestLoans) >= 1
    /\ response.message = "Loan not approved due to overutilized credit limit"

\* Every customer's current_debt in cs is the sum of int(loan_amount) over
\* the customer's loans in ls.
DebtIsPrincipalSum(cs, ls) ==
    \A cid \in DOMAIN cs :
        cs[cid].current_debt = SumOver(Principal, LoansOf(ls, cid))

\* 1 when the step is a create_loan that answers with an approval for the
\* customer, else 0.
ApprovedResponses(cid) ==
    IF /\ request.op = "none"
       /\ request'.op = "create_loan"
       /\ response'.loan_approved
       /\ response'.customer_id = Some(cid)
      THEN 1
    ELSE 0

-----------------------------------------------------------------------------
(* Validation of the request body.                                         *)

\* C27: a check_eligibility or create_loan request whose four keys are all
\* present is never answered "Missing required fields", also when a present
\* value is the number 0.
C27_PresentFieldsNotMissing ==
    (/\ request.op \in {"check_eligibility", "create_loan"}
     /\ AllPresent(request.data))
        => response.error /= "Missing required fields"

-----------------------------------------------------------------------------
(* create_loan against check_eligibility.                                  *)

\* C28: create_loan and check_eligibility agree: a create_loan step on a
\* request that passes the validation creates a loan and answers
\* loan_approved true exactly when check_eligibility, on the store the step
\* started from, answers approval true for the same request, and the loan
\* it creates carries the corrected_interest_rate and the
\* monthly_installment of that answer.
C28_CreateLoanAgreesWithEligibility ==
    [][ServesCreateLoan =>
          LET eligibility == check_eligibility(request'.data)
              approved == eligibility.status = 200 /\ eligibility.approval
              created == DOMAIN loans' \ DOMAIN loans
          IN  /\ approved <=> (response'.loan_approved /\ created /= {})
              /\ approved <=> (response'.status = 201)
              /\ \A i \in created :
                    /\ loans'[i].interest_rate
                          = eligibility.corrected_interest_rate
                    /\ loans'[i].monthly_repayment
                          = eligibility.monthly_installment
      ]_vars

-----------------------------------------------------------------------------
(* What the decision depends on.                                           *)

\* <<loan_amount, tenure>> of other requests, the amount in hundredths:
\* 50.00 over 1 month, 900.75 over 2 months, 5000000.00 over 3 months.
TermVariants == {<<5000, 1>>, <<90075, 2>>, <<500000000, 3>>}

\* C29: the approval flag and the corrected rate of an evaluation do not
\* depend on the requested amount or tenure: for the customer, the loans,
\* the clock and the requested rate of the evaluation, every other positive
\* loan_amount and tenure gives the same approval and the same
\* corrected_interest_rate (an amount that takes the debt above the limit
\* included).
C29_DecisionIgnoresAmountAndTenure ==
    Evaluated =>
        \A v \in TermVariants :
            LET other == Evaluate(RequestCustomer, RequestLoans, v[1],
                                  RequestedRate, v[2])
            IN  /\ other.approval = response.approval
                /\ other.corrected_interest_rate
                      = response.corrected_interest_rate

\* An approved evaluation of an amount that takes current_debt above
\* approved_limit, for a customer who is within the limit.
C29_Witness ==
    /\ Evaluated
    /\ response.approval
    /\ ~Overutilized(RequestCustomer)
    /\ RequestCustomer.current_debt + Truncated(request.data.loan_amount[1])
          > RequestCustomer.approved_limit

-----------------------------------------------------------------------------
(* The rates of a result.                                                  *)

\* C30: in every check_eligibility result the corrected rate is the
\* requested rate itself, or it is 12 or 16 and above the requested rate
\* (so it is never below the requested rate), and the interest_rate field
\* is the requested rate.
C30_CorrectedRateNotBelowRequested ==
    Evaluated =>
        /\ \/ response.corrected_interest_rate = RequestedRate
           \/ /\ response.corrected_interest_rate \in {12, 16}
              /\ RequestedRate < response.corrected_interest_rate
        /\ response.interest_rate = RequestedRate
        /\ {"interest_rate", "corrected_interest_rate"} \subseteq response.keys

\* Results with a corrected rate of 16 for a requested rate of 8.
C30_Witness ==
    /\ Evaluated
    /\ RequestedRate = 8
    /\ response.corrected_interest_rate = 16
    /\ response.interest_rate = 8

====
